---- MODULE Spec2Model ----
(***************************************************************************)
(* Model of src/app.py: the Flask handler api_generate for                 *)
(* POST /api/generate, the OpenAIResponsesClient it drives, the pydantic   *)
(* ServiceSpec model and the mapping of exceptions to HTTP responses.      *)
(*                                                                         *)
(* Python strings are sequences of chunks; a chunk is either the           *)
(* whitespace chunk " " or a word without whitespace, so that str.strip()  *)
(* and str.lower() are computed rather than assumed.  A generated text is  *)
(* a sequence of tokens (whitespace, code fence, language tag, junk, or a  *)
(* complete JSON document), so that json.loads is computed on the text.    *)
(***************************************************************************)
EXTENDS Integers, Sequences, FiniteSets, TLC

VARIABLES pc, served, apiKey, body, term, lang, tone, prompt, clientBuilt,
          calls, text, obj, exc, failedAt, status, resp, responses, log

vars == <<pc, served, apiKey, body, term, lang, tone, prompt, clientBuilt,
          calls, text, obj, exc, failedAt, status, resp, responses, log>>

\* Number of requests handled in one behaviour.
MaxRequests == 2
\* Largest number of text fragments in a response's output list.
MaxPieces == 2

-----------------------------------------------------------------------------
(* Python strings and JSON request values *)

WS == " "

\* str.lower() on one chunk
LowerChunk(c) ==
    CASE c = "JA" -> "ja"
      [] c = "EN" -> "en"
      [] c = "STANDARD" -> "standard"
      [] c = "Overkill" -> "overkill"
      [] OTHER -> c

Lower(s) == [i \in 1..Len(s) |-> LowerChunk(s[i])]

RECURSIVE LStrip(_)
LStrip(s) == IF s # <<>> /\ Head(s) = WS THEN LStrip(Tail(s)) ELSE s

RECURSIVE RStrip(_)
RStrip(s) == IF s # <<>> /\ s[Len(s)] = WS THEN RStrip(SubSeq(s, 1, Len(s) - 1)) ELSE s

\* str.strip()
Strip(s) == RStrip(LStrip(s))

\* A JSON value of a request field: t is its JSON type, s the string's chunks.
JStr(s) == [t |-> "str", s |-> s]
JAbsent == [t |-> "absent", s |-> <<>>]
JNull == [t |-> "null", s |-> <<>>]
JNum == [t |-> "num", s |-> <<>>]

\* Python truthiness: a missing key (None), null and "" are falsy; a non-zero
\* number and a non-empty string are truthy.
Truthy(v) == (v.t = "num") \/ (v.t = "str" /\ v.s # <<>>)

\* (data.get(key) or default)
GetOr(v, default) == IF Truthy(v) THEN v ELSE JStr(default)

TermVals == {JAbsent, JNull, JStr(<<>>), JStr(<<WS>>), JStr(<<"coffee">>),
             JStr(<<WS, "coffee", WS>>), JNum}
LangVals == {JAbsent, JStr(<<>>), JStr(<<WS>>), JStr(<<"ja">>), JStr(<<"JA">>),
             JStr(<<WS, "en", WS>>), JStr(<<"fr">>), JNum}
ToneVals == {JAbsent, JStr(<<"standard">>), JStr(<<"Overkill">>), JStr(<<"mild">>),
             JStr(<<WS>>), JNum}

\* Request bodies: a JSON object, a body that is not JSON (get_json(silent=True)
\* gives None), or a non-empty JSON array.
Bodies ==
    [kind : {"object"}, term : TermVals, lang : LangVals, tone : ToneVals]
    \cup {[kind |-> "invalid", term |-> JAbsent, lang |-> JAbsent, tone |-> JAbsent],
          [kind |-> "array", term |-> JAbsent, lang |-> JAbsent, tone |-> JAbsent]}

NoBody == [kind |-> "none", term |-> JAbsent, lang |-> JAbsent, tone |-> JAbsent]

\* Values of the OPENAI_API_KEY environment variable: unset, empty, set.
EnvVals == {[set |-> FALSE, v |-> ""], [set |-> TRUE, v |-> ""], [set |-> TRUE, v |-> "sk-test"]}

\* Variant: the check is "api_key is None", an empty key passes.
KeyFalsy_NoneOnly(k) == ~k.set

\* "not api_key"
KeyFalsy(k) == ~k.set \/ k.v = ""

Langs == {<<"ja">>, <<"en">>}
Tones == {<<"standard">>, <<"overkill">>}

-----------------------------------------------------------------------------
(* ServiceSpec, its JSON Schema, and JSON documents *)

StrFields == {"service_name", "tagline", "summary", "sample_cli"}
ListStrFields == {"highlights", "features", "integrations", "getting_started", "pricing"}
FaqFields == {"faqs"}

\* The fields class ServiceSpec declares.
DeclaredFields == StrFields \cup ListStrFields \cup FaqFields

\* Field(...) has no default: the field is required.  The list fields have
\* default_factory=list.
RequiredFields == StrFields

\* "required" of the JSON Schema sent to the generation capability.
SchemaRequired == {"service_name", "tagline", "summary", "highlights", "features",
                   "integrations", "getting_started", "pricing", "sample_cli", "faqs"}

\* minItems / maxItems of the JSON Schema.
MinItems(f) ==
    CASE f = "highlights" -> 3
      [] f = "features" -> 5
      [] f = "integrations" -> 5
      [] f = "getting_started" -> 4
      [] f = "pricing" -> 3
      [] f = "faqs" -> 3
      [] OTHER -> 0

MaxItems(f) ==
    CASE f = "highlights" -> 5
      [] f = "features" -> 7
      [] f = "integrations" -> 10
      [] f = "getting_started" -> 7
      [] f = "pricing" -> 5
      [] f = "faqs" -> 5
      [] OTHER -> 0

\* A decoded JSON value of a field: its JSON type, and for an array its length
\* and the kind of its items ("faq" is an object with q and a, "badfaq" an
\* object without a).
StrVal == [t |-> "str", n |-> 0, item |-> "none"]
NumVal == [t |-> "num", n |-> 0, item |-> "none"]
ListVal(n, item) == [t |-> "list", n |-> n, item |-> IF n = 0 THEN "none" ELSE item]

\* A JSON document is described by the shape of its top-level value.
Doc(top, missing, bad, extra, size) ==
    [top |-> top, missing |-> missing, bad |-> bad, extra |-> extra, size |-> size]

NoDoc == Doc("none", {}, {}, FALSE, "min")

\* What resp.model_dump_json() serialises: the response envelope, an object
\* with none of the ServiceSpec fields.
EnvelopeDoc == Doc("object", DeclaredFields, {}, TRUE, "min")

Docs ==
    {Doc("object", {}, {}, FALSE, sz) : sz \in {"min", "max", "over"}}
    \cup {Doc("object", {f}, {}, FALSE, "min") : f \in DeclaredFields}
    \cup {Doc("object", {}, {f}, FALSE, "min") : f \in {"service_name", "features", "faqs"}}
    \cup {Doc("object", {}, {}, TRUE, "min"), Doc("array", {}, {}, FALSE, "min"), EnvelopeDoc}

DocLen(f, size) ==
    CASE size = "min" -> MinItems(f)
      [] size = "max" -> MaxItems(f)
      [] OTHER -> MaxItems(f) + 1

DocVal(d, f) ==
    CASE f \in StrFields -> IF f \in d.bad THEN NumVal ELSE StrVal
      [] f \in ListStrFields ->
           ListVal(DocLen(f, d.size), IF f \in d.bad THEN "num" ELSE "str")
      [] f \in FaqFields ->
           ListVal(DocLen(f, d.size), IF f \in d.bad THEN "badfaq" ELSE "faq")
      [] OTHER -> StrVal

\* The Python value json.loads builds from a document.
Decode(d) ==
    [top |-> d.top,
     fields |-> IF d.top = "object"
                THEN [f \in (DeclaredFields \ d.missing) \cup (IF d.extra THEN {"hero"} ELSE {})
                        |-> DocVal(d, f)]
                ELSE [f \in {} |-> StrVal]]

NoObj == [top |-> "none", fields |-> [f \in {} |-> StrVal]]

\* Text tokens.
Tok(k) == [k |-> k, d |-> NoDoc]
DocTok(d) == [k |-> "doc", d |-> d]
NL == Tok("ws")
Fence == Tok("fence")
Tag == Tok("tag")
Junk == Tok("junk")

\* The serialisation of a document, and a document inside a fenced code block.
Plain(d) == <<DocTok(d)>>
Fenced(d) == <<Fence, NL, DocTok(d), NL, Fence>>
FencedTagged(d) == <<Fence, Tag, NL, DocTok(d), NL, Fence>>
Padded(d) == <<NL, DocTok(d), NL>>

RECURSIVE LStripWs(_)
LStripWs(s) == IF s # <<>> /\ Head(s).k = "ws" THEN LStripWs(Tail(s)) ELSE s

RECURSIVE RStripWs(_)
RStripWs(s) == IF s # <<>> /\ s[Len(s)].k = "ws" THEN RStripWs(SubSeq(s, 1, Len(s) - 1)) ELSE s

\* json.loads(text): leading and trailing whitespace is accepted; anything but
\* exactly one document raises JSONDecodeError.
JsonLoadsOk(s) ==
    LET core == RStripWs(LStripWs(s))
    IN  Len(core) = 1 /\ core[1].k = "doc"

JsonLoads(s) ==
    LET core == RStripWs(LStripWs(s))
    IN  Decode(core[1].d)

\* Lax-mode type check of one field by pydantic.
TypeOk(f, v) ==
    CASE f \in StrFields -> v.t = "str"
      [] f \in ListStrFields -> v.t = "list" /\ v.item \in {"none", "str"}
      [] f \in FaqFields -> v.t = "list" /\ v.item \in {"none", "faq"}
      [] OTHER -> TRUE

\* ServiceSpec.model_validate(obj) succeeds: the value is a mapping, every
\* required field is present, every present declared field has its type;
\* undeclared keys are ignored.
ModelValidate(v) ==
    /\ v.top = "object"
    /\ \A f \in DeclaredFields :
          IF f \in DOMAIN v.fields THEN TypeOk(f, v.fields[f]) ELSE f \notin RequiredFields

\* Variant: the dump leaves out the nested FAQ list.
ModelDump_NoFaqs(v) ==
    [f \in DeclaredFields \ FaqFields |->
        IF f \in DOMAIN v.fields THEN v.fields[f] ELSE ListVal(0, "none")]

\* spec.model_dump(): the declared fields, a missing list field as [].
ModelDump(v) ==
    [f \in DeclaredFields |->
        IF f \in DOMAIN v.fields THEN v.fields[f] ELSE ListVal(0, "none")]

-----------------------------------------------------------------------------
(* Prompt, response envelopes, exceptions *)

\* build_prompt: the term, the language instruction and the tone phrase.
BuildPrompt(t, l, tn) ==
    [term |-> t,
     lang_inst |-> IF l = <<"ja">> THEN "ja: output language is Japanese"
                   ELSE "Output language is English.",
     spice |-> IF l = <<"ja">>
               THEN (IF tn = <<"standard">> THEN "ja: slightly exaggerated"
                     ELSE "ja: strongly exaggerated")
               ELSE (IF tn = <<"standard">> THEN "with a slightly grand tone"
                     ELSE "with an aggressively grand tone")]

NoPrompt == [term |-> <<>>, lang_inst |-> "", spice |-> ""]

Texts ==
    UNION {{Plain(d), Fenced(d), FencedTagged(d), Padded(d)} : d \in Docs} \cup {<<Junk>>}

PieceTexts == {<<>>, Plain(Doc("object", {}, {}, FALSE, "min")), <<Junk>>}

\* Response envelopes of responses.create: output_text, or text fragments in
\* the output list.
Envelopes ==
    {[output_text |-> t, pieces |-> <<>>] : t \in Texts}
    \cup {[output_text |-> <<>>, pieces |-> p] :
            p \in UNION {[1..n -> PieceTexts] : n \in 0..MaxPieces}}

\* "\n".join(pieces)
RECURSIVE Join(_)
Join(ps) ==
    IF ps = <<>> THEN <<>>
    ELSE IF Len(ps) = 1 THEN ps[1]
    ELSE ps[1] \o <<NL>> \o Join(Tail(ps))

NonEmpty(t) == t # <<>>

\* OpenAIResponsesClient._extract_output_text
ExtractOutputText(r) ==
    IF r.output_text # <<>> THEN r.output_text
    ELSE LET pieces == SelectSeq(r.pieces, NonEmpty)
         IN  IF pieces # <<>> THEN Join(pieces) ELSE Plain(EnvelopeDoc)

\* An exception: its class and, for APIStatusError, status_code (0 is None).
Exc(cls, st) == [cls |-> cls, status |-> st]
NoExc == Exc("none", 0)

\* What responses.create can raise.
GenExceptions ==
    {Exc("RateLimitError", 429), Exc("APITimeoutError", 0), Exc("APIConnectionError", 0),
     Exc("OpenAIError", 0), Exc("Exception", 0)}
    \cup {Exc("APIStatusError", s) : s \in {0, 400, 401, 403, 404, 409, 422, 500, 503}}

\* Base class of each exception class.
Parent(cls) ==
    CASE cls = "RateLimitError" -> "APIStatusError"
      [] cls = "APIStatusError" -> "OpenAIError"
      [] cls = "APITimeoutError" -> "APIConnectionError"
      [] cls = "APIConnectionError" -> "OpenAIError"
      [] cls = "OpenAIError" -> "Exception"
      [] cls = "ValidationError" -> "Exception"
      [] cls = "JSONDecodeError" -> "Exception"
      [] cls = "AttributeError" -> "Exception"
      [] OTHER -> "BaseException"

RECURSIVE IsInstance(_, _)
IsInstance(cls, target) ==
    IF cls = target THEN TRUE
    ELSE IF cls = "BaseException" THEN FALSE
    ELSE IsInstance(Parent(cls), target)

\* The except clauses of api_generate, in source order.
Clauses == <<"RateLimitError", "APITimeoutError", "APIConnectionError", "APIStatusError",
             "OpenAIError", "ValidationError", "JSONDecodeError", "Exception">>

\* The first except clause that matches the exception.
MatchClause(e) ==
    Clauses[CHOOSE i \in 1..Len(Clauses) :
               /\ IsInstance(e.cls, Clauses[i])
               /\ \A j \in 1..(i - 1) : ~IsInstance(e.cls, Clauses[j])]

Out(st, err, ev) == [status |-> st, error |-> err, event |-> ev]

\* Variant: an upstream 5xx status is passed through to the caller.
ErrorResponse_PassStatus(e) ==
    IF e.status >= 500
    THEN Out(e.status, "LLM internal error", "openai.error.internal")
    ELSE Out(502, "error during LLM call", "openai.error.generic")

\* Status, error message and log event of each except clause.  The messages
\* are English renderings of the Japanese literals of the source.
ErrorResponse(e) ==
    LET c == MatchClause(e)
    IN  CASE c = "RateLimitError" ->
               Out(502, "LLM call reached the rate limit; retry later", "openai.error.rate_limit")
          [] c = "APITimeoutError" ->
               Out(502, "LLM response timed out", "openai.error.timeout")
          [] c = "APIConnectionError" ->
               Out(502, "LLM connection error", "openai.error.connection")
          [] c = "APIStatusError" ->
               (CASE e.status = 401 ->
                       Out(502, "LLM authentication failed", "openai.error.unauthorized")
                  [] e.status = 404 ->
                       Out(502, "model or resource not found", "openai.error.not_found")
                  [] e.status = 400 ->
                       Out(502, "bad request to LLM", "openai.error.bad_request")
                  [] e.status = 422 ->
                       Out(502, "request could not be processed", "openai.error.unprocessable")
                  [] e.status = 409 ->
                       Out(502, "conflict error", "openai.error.conflict")
                  [] e.status # 0 /\ e.status >= 500 ->
                       Out(502, "LLM internal error", "openai.error.internal")
                  [] OTHER ->
                       Out(502, "HTTP error in LLM call", "openai.error.status"))
          [] c = "OpenAIError" ->
               Out(502, "error during LLM call", "openai.error.generic")
          [] c = "ValidationError" ->
               Out(502, "validation of LLM output failed", "validation.error.pydantic")
          [] c = "JSONDecodeError" ->
               Out(502, "LLM output was invalid JSON", "json.error.decode")
          [] OTHER ->
               Out(502, "unknown server error", "server.error.unexpected")

\* _log(level, event, ...)
LogRec(level, event) == [level |-> level, event |-> event]

\* jsonify(...) bodies: an error body, or the dumped ServiceSpec.
ErrorBody(msg) == [error |-> msg, spec |-> NoObj.fields]
SpecBody(fields) == [error |-> "", spec |-> fields]
NoResp == [error |-> "", spec |-> NoObj.fields]

-----------------------------------------------------------------------------
(* The handler api_generate, one action per step *)

Init ==
    /\ pc = "idle"
    /\ served = 0
    /\ apiKey \in EnvVals
    /\ body = NoBody
    /\ term = <<>>
    /\ lang = <<>>
    /\ tone = <<>>
    /\ prompt = NoPrompt
    /\ clientBuilt = FALSE
    /\ calls = 0
    /\ text = <<>>
    /\ obj = NoObj
    /\ exc = NoExc
    /\ failedAt = "none"
    /\ status = 0
    /\ resp = NoResp
    /\ responses = 0
    /\ log = <<>>

\* return jsonify(body), st
Respond(st, b) ==
    /\ status' = st
    /\ resp' = b
    /\ responses' = responses + 1
    /\ pc' = "done"

\* An exception leaves api_generate: Flask answers 500 without a JSON body
\* of the handler.
Escape(e, where) ==
    /\ exc' = e
    /\ failedAt' = where
    /\ status' = 500
    /\ pc' = "crashed"

\* A POST /api/generate arrives; every request starts from fresh locals.
Receive ==
    /\ pc \in {"idle", "done", "crashed"}
    /\ served < MaxRequests
    /\ \E b \in Bodies : body' = b
    /\ served' = served + 1
    /\ pc' = "read"
    /\ term' = <<>>
    /\ lang' = <<>>
    /\ tone' = <<>>
    /\ prompt' = NoPrompt
    /\ clientBuilt' = FALSE
    /\ calls' = 0
    /\ text' = <<>>
    /\ obj' = NoObj
    /\ exc' = NoExc
    /\ failedAt' = "none"
    /\ status' = 0
    /\ resp' = NoResp
    /\ responses' = 0
    /\ log' = <<>>
    /\ UNCHANGED apiKey

\* data.get(...) on a list, or .strip() on a value that is not a str, raises
\* AttributeError.
ReadRaises(b) ==
    \/ b.kind = "array"
    \/ GetOr(b.term, <<>>).t # "str"
    \/ GetOr(b.lang, <<"ja">>).t # "str"
    \/ GetOr(b.tone, <<"standard">>).t # "str"

TermOf(b) == Strip(GetOr(b.term, <<>>).s)
LangOf(b) == Lower(Strip(GetOr(b.lang, <<"ja">>).s))
ToneOf(b) == Lower(Strip(GetOr(b.tone, <<"standard">>).s))

\* data = request.get_json(silent=True) or {}; term, lang, tone; _log
ReadBody ==
    /\ pc = "read"
    /\ IF ReadRaises(body)
       THEN /\ Escape(Exc("AttributeError", 0), "read")
            /\ UNCHANGED <<term, lang, tone, log>>
       ELSE /\ term' = TermOf(body)
            /\ lang' = LangOf(body)
            /\ tone' = ToneOf(body)
            /\ log' = Append(log, LogRec("info", "http.request"))
            /\ pc' = "validate"
            /\ UNCHANGED <<exc, failedAt, status>>
    /\ UNCHANGED <<served, apiKey, body, prompt, clientBuilt, calls, text, obj, resp, responses>>

\* Variant: the tone check is missing.
RequestError_SkipTone(t, l, tn) ==
    IF t = <<>> THEN "term is required"
    ELSE IF l \notin Langs THEN "lang must be 'ja' or 'en'"
    ELSE ""

\* The message of the first failing check of the request, "" when all pass.
RequestError(t, l, tn) ==
    IF t = <<>> THEN "term is required"
    ELSE IF l \notin Langs THEN "lang must be 'ja' or 'en'"
    ELSE IF tn \notin Tones THEN "tone must be 'standard' or 'overkill'"
    ELSE ""

ValidateRequest ==
    /\ pc = "validate"
    /\ IF RequestError(term, lang, tone) # ""
       THEN /\ log' = Append(log, LogRec("error", "validation.error"))
            /\ Respond(400, ErrorBody(RequestError(term, lang, tone)))
       ELSE /\ pc' = "prompt"
            /\ UNCHANGED <<log, status, resp, responses>>
    /\ UNCHANGED <<served, apiKey, body, term, lang, tone, prompt, clientBuilt, calls, text,
                   obj, exc, failedAt>>

\* prompt = build_prompt(term=term, lang=lang, tone=tone)
MakePrompt ==
    /\ pc = "prompt"
    /\ prompt' = BuildPrompt(term, lang, tone)
    /\ pc' = "config"
    /\ UNCHANGED <<served, apiKey, body, term, lang, tone, clientBuilt, calls, text, obj, exc,
                   failedAt, status, resp, responses, log>>

\* api_key = os.getenv("OPENAI_API_KEY"); if not api_key: ... 500
CheckConfig ==
    /\ pc = "config"
    /\ IF KeyFalsy(apiKey)
       THEN /\ log' = Append(log, LogRec("error", "config.error"))
            /\ Respond(500, ErrorBody("server configuration error: OPENAI_API_KEY is not set"))
       ELSE /\ pc' = "construct"
            /\ UNCHANGED <<log, status, resp, responses>>
    /\ UNCHANGED <<served, apiKey, body, term, lang, tone, prompt, clientBuilt, calls, text,
                   obj, exc, failedAt>>

\* client = OpenAIResponsesClient(api_key=api_key, model=model), outside the
\* try statement: OpenAI(api_key=...) either returns or raises.
ConstructClient ==
    /\ pc = "construct"
    /\ \E raises \in BOOLEAN :
          IF raises
          THEN /\ Escape(Exc("OpenAIError", 0), "construct")
               /\ UNCHANGED clientBuilt
          ELSE /\ clientBuilt' = TRUE
               /\ pc' = "generate"
               /\ UNCHANGED <<exc, failedAt, status>>
    /\ UNCHANGED <<served, apiKey, body, term, lang, tone, prompt, calls, text, obj, resp,
                   responses, log>>

\* Variant: a failed responses.create call is retried once.
Generate_Retry ==
    /\ pc = "generate"
    /\ calls < 2
    /\ calls' = calls + 1
    /\ \/ \E e \in GenExceptions :
            /\ exc' = e
            /\ failedAt' = "generate"
            /\ log' = Append(log, LogRec("info", "openai.request"))
            /\ pc' = IF calls = 0 THEN "generate" ELSE "except"
            /\ UNCHANGED text
       \/ \E r \in Envelopes :
            /\ text' = ExtractOutputText(r)
            /\ log' = log \o <<LogRec("info", "openai.request"), LogRec("info", "openai.response")>>
            /\ pc' = "parse"
            /\ UNCHANGED <<exc, failedAt>>
    /\ UNCHANGED <<served, apiKey, body, term, lang, tone, prompt, clientBuilt, obj, status,
                   resp, responses>>

\* text = client.generate(prompt, lang=lang): one responses.create call, which
\* raises or returns an envelope whose text is extracted.
Generate ==
    /\ pc = "generate"
    /\ calls' = calls + 1
    /\ \/ \E e \in GenExceptions :
            /\ exc' = e
            /\ failedAt' = "generate"
            /\ log' = Append(log, LogRec("info", "openai.request"))
            /\ pc' = "except"
            /\ UNCHANGED text
       \/ \E r \in Envelopes :
            /\ text' = ExtractOutputText(r)
            /\ log' = log \o <<LogRec("info", "openai.request"), LogRec("info", "openai.response")>>
            /\ pc' = "parse"
            /\ UNCHANGED <<exc, failedAt>>
    /\ UNCHANGED <<served, apiKey, body, term, lang, tone, prompt, clientBuilt, obj, status,
                   resp, responses>>

\* obj = json.loads(text)
ParseJson ==
    /\ pc = "parse"
    /\ IF JsonLoadsOk(text)
       THEN /\ obj' = JsonLoads(text)
            /\ pc' = "validate2"
            /\ UNCHANGED <<exc, failedAt>>
       ELSE /\ exc' = Exc("JSONDecodeError", 0)
            /\ failedAt' = "parse"
            /\ pc' = "except"
            /\ UNCHANGED obj
    /\ UNCHANGED <<served, apiKey, body, term, lang, tone, prompt, clientBuilt, calls, text,
                   status, resp, responses, log>>

\* spec = ServiceSpec.model_validate(obj); return jsonify(spec.model_dump())
ValidateSpec ==
    /\ pc = "validate2"
    /\ IF ModelValidate(obj)
       THEN /\ log' = Append(log, LogRec("info", "generation.success"))
            /\ Respond(200, SpecBody(ModelDump(obj)))
            /\ UNCHANGED <<exc, failedAt>>
       ELSE /\ exc' = Exc("ValidationError", 0)
            /\ failedAt' = "validate2"
            /\ pc' = "except"
            /\ UNCHANGED <<log, status, resp, responses>>
    /\ UNCHANGED <<served, apiKey, body, term, lang, tone, prompt, clientBuilt, calls, text, obj>>

\* The except clauses: log the error, answer with the clause's response.
HandleException ==
    /\ pc = "except"
    /\ log' = Append(log, LogRec("error", ErrorResponse(exc).event))
    /\ Respond(ErrorResponse(exc).status, ErrorBody(ErrorResponse(exc).error))
    /\ UNCHANGED <<served, apiKey, body, term, lang, tone, prompt, clientBuilt, calls, text, obj,
                   exc, failedAt>>

Next ==
    \/ Receive
    \/ ReadBody
    \/ ValidateRequest
    \/ MakePrompt
    \/ CheckConfig
    \/ ConstructClient
    \/ Generate
    \/ ParseJson
    \/ ValidateSpec
    \/ HandleException

Spec == Init /\ [][Next]_vars

TypeOK ==
    /\ pc \in {"idle", "read", "validate", "prompt", "config", "construct", "generate",
               "parse", "validate2", "except", "done", "crashed"}
    /\ served \in 0..MaxRequests
    /\ calls \in 0..1
    /\ status \in {0, 200, 400, 500, 502}

-----------------------------------------------------------------------------
(* Properties *)

\* The request as the handler holds it passes the three request checks.
RequestValid == term # <<>> /\ lang \in Langs /\ tone \in Tones

\* A well-formed ServiceSpec object by the JSON Schema of the source: exactly
\* the required fields, each of its type, arrays within minItems..maxItems.
WellFormed(v) ==
    /\ v.top = "object"
    /\ DOMAIN v.fields = SchemaRequired
    /\ \A f \in SchemaRequired :
          CASE f \in StrFields -> v.fields[f].t = "str"
            [] f \in ListStrFields ->
                 /\ v.fields[f].t = "list"
                 /\ v.fields[f].item = "str"
                 /\ v.fields[f].n \in MinItems(f)..MaxItems(f)
            [] OTHER ->
                 /\ v.fields[f].t = "list"
                 /\ v.fields[f].item = "faq"
                 /\ v.fields[f].n \in MinItems(f)..MaxItems(f)

\* C1: a request answered 400 made no generation call and built no client,
\* and a client is built or a generation call made only for a request that
\* passed the three request checks.
C1_ValidationBeforeGeneration ==
    /\ status = 400 => calls = 0 /\ ~clientBuilt
    /\ (calls > 0 \/ clientBuilt \/ pc \in {"construct", "generate"}) => RequestValid

C1_Witness ==
    /\ pc = "done"
    /\ status = 400
    /\ apiKey.v # ""
    /\ term # <<>>
    /\ lang \in Langs
    /\ tone \notin Tones
    /\ calls = 0

\* C2: a rate-limit condition raised by the generation call is answered 429
\* with a non-empty error field.
C2_RateLimitAnswered429 ==
    (pc = "done" /\ failedAt = "generate" /\ exc.cls = "RateLimitError")
        => (status = 429 /\ resp.error # "")

\* C3: a request with a non-empty keyword whose lang is missing or not one of
\* "ja", "en", or whose tone is missing or not one of "standard", "overkill",
\* is answered 400 with a non-empty error and reaches neither prompt building
\* nor generation.
C3_BadLangOrToneAnswered400 ==
    (/\ pc \in {"done", "crashed"}
     /\ body.kind = "object"
     /\ body.term.t = "str"
     /\ Strip(body.term.s) # <<>>
     /\ \/ body.lang \notin {JStr(<<"ja">>), JStr(<<"en">>)}
        \/ body.tone \notin {JStr(<<"standard">>), JStr(<<"overkill">>)})
        => (status = 400 /\ resp.error # "" /\ prompt = NoPrompt /\ calls = 0)

C5_SuccessNeedsEveryField ==
    /\ (pc = "done" /\ status = 200) => SchemaRequired \subseteq DOMAIN obj.fields
    /\ (pc = "done" /\ obj.top = "object" /\ ~(SchemaRequired \subseteq DOMAIN obj.fields))
          => (status \in {422, 502} /\ resp.error # "")

\* C6: a well-formed ServiceSpec document wrapped in code fences, with or
\* without a language tag, is decoded and answered 200 like the unwrapped text.
C6_FencedTextAnswered200 ==
    \A d \in Docs :
        (pc = "done" /\ WellFormed(Decode(d)) /\ text \in {Fenced(d), FencedTagged(d)})
            => status = 200

\* C7: a request that passes the request checks while OPENAI_API_KEY is unset
\* or empty is answered 500 with a non-empty error, no client is built and no
\* generation call made; a request that fails the request checks is answered
\* 400 whether or not the key is set.
C7_MissingKeyAnswered500 ==
    /\ (apiKey.set => apiKey.v = "") => (~clientBuilt /\ calls = 0)
    /\ (pc = "done" /\ RequestValid /\ (apiKey.set => apiKey.v = ""))
          => (status = 500 /\ resp.error # "")
    /\ (pc = "done" /\ ~RequestValid) => (status = 400 /\ resp.error # "")

C7_Witness ==
    /\ pc = "done"
    /\ RequestValid
    /\ apiKey.set
    /\ apiKey.v = ""
    /\ status = 500
    /\ resp.error # ""
    /\ ~clientBuilt

\* C8: no exception raised in prompt building, client construction, the
\* generation call, text extraction, JSON decoding or validation leaves the
\* handler; each of them ends in one JSON response with an error log record.
C8_NoExceptionEscapes ==
    /\ failedAt \in {"prompt", "construct", "generate", "parse", "validate2"} => pc # "crashed"
    /\ (pc \in {"done", "crashed"} /\ failedAt \in {"prompt", "construct", "generate", "parse", "validate2"})
          => /\ responses = 1
             /\ resp.error # ""
             /\ log # <<>>
             /\ log[Len(log)].level = "error"

\* C9: the generation capability is called at most once per request, and after
\* a failed call nothing is parsed or validated, no second call is made and
\* the response is not 200.
C9_NoRetry ==
    /\ calls <= 1
    /\ failedAt = "generate"
          => /\ calls = 1
             /\ pc \in {"except", "done"}
             /\ text = <<>>
             /\ obj = NoObj
             /\ status # 200
             /\ (pc = "done" => responses = 1)

C9_Witness ==
    /\ pc = "done"
    /\ failedAt = "generate"
    /\ exc.cls = "APITimeoutError"
    /\ calls = 1
    /\ status = 502

\* C10: when the generation capability returns the JSON text of a well-formed
\* ServiceSpec, the response is 200 and its body equals the returned object
\* field for field.
C10_WellFormedAnswered200 ==
    \A d \in Docs :
        (pc = "done" /\ text = Plain(d) /\ WellFormed(Decode(d)))
            => (status = 200 /\ resp = SpecBody(Decode(d).fields))

C10_Witness ==
    /\ pc = "done"
    /\ body.term = JStr(<<"coffee">>)
    /\ body.lang = JStr(<<"ja">>)
    /\ body.tone = JStr(<<"standard">>)
    /\ text = Plain(Doc("object", {}, {}, FALSE, "max"))
    /\ status = 200
    /\ resp.spec = Decode(Doc("object", {}, {}, FALSE, "max")).fields

====
